---- MODULE Spec2Model ----
\* Eager balance-withdraw scheduler
\* (crates/sui-core/src/execution_scheduler/balance_withdraw_scheduler/eager_scheduler.rs)
\* driven the way tests.rs drives it: schedule_withdraws by version, and
\* TestScheduler::settle_balance_changes for the settlement feed.
\*
\* A Rust panic (failed assert!, unwrap on None, failed try_from) is modelled
\* by recording the name of the failed check in `panicked`; the handler stops
\* at that point with the state it had mutated so far, and no further call is
\* made on the scheduler.
EXTENDS Integers, Sequences, FiniteSets, TLC

\* ---------------------------------------------------------------- bounds
MaxBalance == 1
MaxVersion == 2
MaxBatch == 2

\* ObjectIDs of the accounts, in their order
Accounts == {1, 2}
\* amounts a withdraw reserves from one account
Amounts == {1, 2}
\* net balance changes of a settlement
Deltas == {-1, 1, 2}
\* the digests of the withdraws that get submitted, in order of submission
TxDigests == {1, 2}
Versions == 0..MaxVersion
StartingVersion == 0

NoPanic == "none"

\* ---------------------------------------------------------------- maps
\* HashMap / BTreeMap as functions over the set of present keys.
EmptyMap == [k \in {} |-> 0]
MapGet(m, k, d) == IF k \in DOMAIN m THEN m[k] ELSE d
MapPut(m, k, v) == [x \in (DOMAIN m) \cup {k} |-> IF x = k THEN v ELSE m[x]]
MapRemove(m, k) == [x \in (DOMAIN m) \ {k} |-> m[x]]

Min(S) == CHOOSE x \in S : \A y \in S : x <= y

\* SequenceNumber::increment / decrement / next
Increment(v) == v + 1
Decrement(v) == v - 1

\* ---------------------------------------------------------------- state
VARIABLES
    tracked_accounts,      \* InnerState.tracked_accounts : ObjectID -> AccountState
    pending_settlements,   \* InnerState.pending_settlements : version -> set of ObjectID
    last_settled_version,  \* InnerState.last_settled_version
    pending_withdraws,     \* the Arc<PendingWithdraw> objects, by tx_digest
    results,               \* per oneshot receiver: the statuses it was sent
    digests,               \* per oneshot receiver: the tx_digest of each result it was sent
    reads,                 \* the (account, version) pairs the last call asked of the balance reader
    panicked,              \* NoPanic, or the check that failed
    balances,              \* MockBalanceRead: current settled balance per account
    next_tx,               \* next fresh tx_digest
    call,                  \* the call made by the last step
    det                    \* the fixed run of SpecDet; the calls made so far in SpecTests;
                           \* the threads of SpecMutex; the call of SpecPort

vars == <<tracked_accounts, pending_settlements, last_settled_version,
          pending_withdraws, results, digests, reads, panicked, balances,
          next_tx, call, det>>

\* The scheduler state as one record, so that the handlers are functions of it.
SchedulerState ==
    [tracked_accounts |-> tracked_accounts,
     pending_settlements |-> pending_settlements,
     last_settled_version |-> last_settled_version,
     pending_withdraws |-> pending_withdraws,
     results |-> results,
     digests |-> digests,
     dropped |-> {},
     reads |-> {},
     panicked |-> panicked]

\* EagerBalanceWithdrawScheduler::new
NewScheduler(starting_accumulator_version) ==
    [tracked_accounts |-> EmptyMap,
     pending_settlements |-> EmptyMap,
     last_settled_version |-> starting_accumulator_version,
     pending_withdraws |-> EmptyMap,
     results |-> EmptyMap,
     digests |-> EmptyMap,
     dropped |-> {},
     reads |-> {},
     panicked |-> NoPanic]

Panic(s, what) == [s EXCEPT !.panicked = what]

\* mutant: every result carries the digest that was handed out first
SendFirstDigest(s, sender, tx_digest, status) ==
    [s EXCEPT
       !.results = MapPut(@, sender, Append(MapGet(@, sender, <<>>), status)),
       !.digests = MapPut(@, sender, Append(MapGet(@, sender, <<>>), 1))]

\* mutant: the outcome of the send is unwrapped instead of ignored
SendUnwrapped(s, sender, tx_digest, status) ==
    IF sender \in s.dropped
    THEN Panic(s, "unwrap_send")
    ELSE [s EXCEPT
            !.results = MapPut(@, sender, Append(MapGet(@, sender, <<>>), status)),
            !.digests = MapPut(@, sender,
                               Append(MapGet(@, sender, <<>>), tx_digest))]

\* `let _ = sender.send(ScheduleResult { tx_digest, status })`: the receiver
\* of the sender's channel gets the result; if that receiver has been dropped
\* (`dropped`: the receivers gone) the send fails and the error is ignored.
Send(s, sender, tx_digest, status) ==
    IF sender \in s.dropped
    THEN s
    ELSE [s EXCEPT
            !.results = MapPut(@, sender, Append(MapGet(@, sender, <<>>), status)),
            !.digests = MapPut(@, sender,
                               Append(MapGet(@, sender, <<>>), tx_digest))]

\* ---------------------------------------------------------------- PendingWithdraw
\* PendingWithdraw::new
\* `sender` tells whether the Option still holds the sender, `channel` is the
\* oneshot channel that sender belongs to; `reservations` keeps the map the
\* withdraw was submitted with (history only; the code reads `pending` alone).
NewPendingWithdraw(accumulator_version, withdraw, sender) ==
    [accumulator_version |-> accumulator_version,
     tx_digest |-> withdraw.tx_digest,
     sender |-> TRUE,
     channel |-> sender,
     pending |-> withdraw.reservations,
     reservations |-> withdraw.reservations]

\* mutant: the verdict is sent at the first commit, whatever is still pending
FullyReservedAlways(pending) == TRUE

\* `pending.is_empty()` of commit_reservation
FullyReserved(pending) == pending = EmptyMap

\* ---------------------------------------------------------------- AccountState
\* MockBalanceRead::get_account_balance: 0 for an account never seen
GetAccountBalance(bal, object_id) == MapGet(bal, object_id, 0)

\* mutant: the account starts from zero, whatever balance the reader reports
NewAccountStateUnread(bal, object_id) ==
    [reserved_balance |-> EmptyMap,
     pending_reservations |-> <<>>,
     min_guaranteed_balance |-> 0]

\* AccountState::new
NewAccountState(bal, object_id) ==
    [reserved_balance |-> EmptyMap,
     pending_reservations |-> <<>>,
     min_guaranteed_balance |-> GetAccountBalance(bal, object_id)]

\* AccountState::is_empty
IsEmpty(account_state) ==
    /\ DOMAIN account_state.reserved_balance = {}
    /\ account_state.pending_reservations = <<>>

\* AccountState::commit_reservation
CommitReservation(s, object_id, tx) ==
    LET pw == s.pending_withdraws[tx]
        acct == s.tracked_accounts[object_id]
    IN  IF object_id \notin DOMAIN pw.pending
        THEN Panic(s, "unwrap_pending")
        ELSE
        LET to_reserve == pw.pending[object_id]
            pending == MapRemove(pw.pending, object_id)
            s1 == [s EXCEPT !.pending_withdraws[tx].pending = pending]
        IN  IF ~(acct.min_guaranteed_balance >= to_reserve)
            THEN Panic(s1, "assert_min_guaranteed_balance")
            ELSE
            LET v == pw.accumulator_version
                s2 == [s1 EXCEPT
                         !.tracked_accounts[object_id].min_guaranteed_balance =
                             @ - to_reserve,
                         !.tracked_accounts[object_id].reserved_balance =
                             MapPut(@, v, MapGet(@, v, 0) + to_reserve)]
            IN  IF FullyReserved(pending)
                THEN IF ~pw.sender
                     THEN Panic(s2, "unwrap_sender")
                     ELSE Send([s2 EXCEPT !.pending_withdraws[tx].sender = FALSE],
                               pw.channel, pw.tx_digest, "SufficientBalance")
                ELSE s2

\* mutant: try_reserve looks at the balance only, not at the queue
TryReserveIgnoringQueue(s, object_id, tx) ==
    IF s.pending_withdraws[tx].pending[object_id]
           > s.tracked_accounts[object_id].min_guaranteed_balance
    THEN [s EXCEPT !.tracked_accounts[object_id].pending_reservations =
                       Append(@, tx)]
    ELSE CommitReservation(s, object_id, tx)

\* mutant: a withdraw that does not fit is rejected at once instead of queued
TryReserveRejecting(s, object_id, tx) ==
    IF s.tracked_accounts[object_id].pending_reservations # <<>>
    THEN [s EXCEPT !.tracked_accounts[object_id].pending_reservations =
                       Append(@, tx)]
    ELSE IF s.pending_withdraws[tx].pending[object_id]
                > s.tracked_accounts[object_id].min_guaranteed_balance
    THEN Send([s EXCEPT !.pending_withdraws[tx].sender = FALSE],
              s.pending_withdraws[tx].channel, s.pending_withdraws[tx].tx_digest,
              "InsufficientBalance")
    ELSE CommitReservation(s, object_id, tx)

\* mutant: a withdraw that has to wait is put at the front of the queue
TryReserveAtFront(s, object_id, tx) ==
    IF s.tracked_accounts[object_id].pending_reservations # <<>>
           \/ s.pending_withdraws[tx].pending[object_id]
                  > s.tracked_accounts[object_id].min_guaranteed_balance
    THEN [s EXCEPT !.tracked_accounts[object_id].pending_reservations =
                       <<tx>> \o @]
    ELSE CommitReservation(s, object_id, tx)

\* the bool that try_reserve returns
TryReserveReturns(account_state, to_reserve) ==
    IF account_state.pending_reservations # <<>>
           \/ to_reserve > account_state.min_guaranteed_balance
    THEN FALSE
    ELSE TRUE

\* AccountState::try_reserve
TryReserve(s, object_id, tx) ==
    LET pw == s.pending_withdraws[tx]
        acct == s.tracked_accounts[object_id]
    IN  IF object_id \notin DOMAIN pw.pending
        THEN Panic(s, "unwrap_pending")
        ELSE
        LET to_reserve == pw.pending[object_id]
        IN  IF acct.pending_reservations # <<>>
               \/ to_reserve > acct.min_guaranteed_balance
            THEN [s EXCEPT !.tracked_accounts[object_id].pending_reservations =
                               Append(@, tx)]
            ELSE CommitReservation(s, object_id, tx)

\* ---------------------------------------------------------------- InnerState
\* mutant: the rejection is sent whether or not the sender was already taken
RejectWithdrawAlways(s, tx) ==
    Send([s EXCEPT !.pending_withdraws[tx].sender = FALSE],
         s.pending_withdraws[tx].channel, s.pending_withdraws[tx].tx_digest,
         "InsufficientBalance")

\* mutant: the rejection gives back what the withdraw had committed on its
\* other accounts
RejectWithdrawReturning(s, tx) ==
    LET pw == s.pending_withdraws[tx]
        committed == (DOMAIN pw.reservations \ DOMAIN pw.pending)
                         \cap DOMAIN s.tracked_accounts
        returned ==
            [a \in DOMAIN s.tracked_accounts |->
                IF a \in committed
                THEN [s.tracked_accounts[a] EXCEPT
                        !.min_guaranteed_balance = @ + pw.reservations[a],
                        !.reserved_balance =
                            MapRemove(@, pw.accumulator_version)]
                ELSE s.tracked_accounts[a]]
        s1 == [s EXCEPT !.tracked_accounts = returned]
    IN  IF pw.sender
        THEN Send([s1 EXCEPT !.pending_withdraws[tx].sender = FALSE],
                  pw.channel, pw.tx_digest, "InsufficientBalance")
        ELSE s1

\* The rejection branch of process_settlement: the sender, if still there, is
\* taken and sent InsufficientBalance.
RejectWithdraw(s, tx) ==
    IF s.pending_withdraws[tx].sender
    THEN Send([s EXCEPT !.pending_withdraws[tx].sender = FALSE],
              s.pending_withdraws[tx].channel, s.pending_withdraws[tx].tx_digest,
              "InsufficientBalance")
    ELSE s

\* The while loop of process_settlement over one account's queue.
RECURSIVE DrainPending(_, _, _)
DrainPending(s, object_id, settlement) ==
    LET acct == s.tracked_accounts[object_id]
    IN  IF acct.pending_reservations = <<>>
        THEN s
        ELSE
        LET tx == Head(acct.pending_reservations)
            pw == s.pending_withdraws[tx]
            popped == [s EXCEPT !.tracked_accounts[object_id].pending_reservations =
                                    Tail(@)]
        IN  IF ~(pw.accumulator_version >= s.last_settled_version)
            THEN Panic(popped, "assert_version")
            ELSE IF object_id \notin DOMAIN pw.pending
            THEN Panic(popped, "unwrap_pending")
            ELSE
            LET pending_amount == pw.pending[object_id]
            IN  IF pending_amount >= acct.min_guaranteed_balance
                THEN IF object_id \notin DOMAIN settlement
                     THEN Panic(popped, "assert_settlement_contains")
                     ELSE LET c == CommitReservation(popped, object_id, tx)
                          IN  IF c.panicked # NoPanic
                              THEN c
                              ELSE DrainPending(c, object_id, settlement)
                ELSE IF pw.accumulator_version = s.last_settled_version
                THEN DrainPending(RejectWithdraw(popped, tx), object_id,
                                  settlement)
                ELSE s

\* The body of the for loop of process_settlement, for one account.
SettleAccount(s, object_id, settlement, cleanup_version) ==
    IF object_id \notin DOMAIN s.tracked_accounts
    THEN IF object_id \in DOMAIN settlement
         THEN s
         ELSE Panic(s, "assert_untracked_in_settlement")
    ELSE
    LET acct == s.tracked_accounts[object_id]
        reserved == MapGet(acct.reserved_balance, cleanup_version, 0)
        settled == MapGet(settlement, object_id, 0)
        s1 == [s EXCEPT !.tracked_accounts[object_id].reserved_balance =
                            MapRemove(@, cleanup_version)]
    IN  IF reserved + settled < 0
        THEN Panic(s1, "try_from_net")
        ELSE
        LET s2 == [s1 EXCEPT
                     !.tracked_accounts[object_id].min_guaranteed_balance =
                         @ + (reserved + settled)]
            s3 == DrainPending(s2, object_id, settlement)
        IN  IF s3.panicked # NoPanic
            THEN s3
            ELSE IF IsEmpty(s3.tracked_accounts[object_id])
            THEN [s3 EXCEPT !.tracked_accounts = MapRemove(@, object_id)]
            ELSE s3

\* The for loop of process_settlement: the BTreeSet is walked in id order.
RECURSIVE SettleAccounts(_, _, _, _)
SettleAccounts(s, cleanup_accounts, settlement, cleanup_version) ==
    IF cleanup_accounts = {} \/ s.panicked # NoPanic
    THEN s
    ELSE LET object_id == Min(cleanup_accounts)
         IN  SettleAccounts(
                 SettleAccount(s, object_id, settlement, cleanup_version),
                 cleanup_accounts \ {object_id}, settlement, cleanup_version)

\* mutant: the cleanup version is last_settled_version itself
ProcessSettlementUndecremented(s, settlement) ==
    LET cleanup_version == s.last_settled_version
        cleanup_accounts ==
            MapGet(s.pending_settlements, cleanup_version, {})
                \cup DOMAIN settlement
        s1 == [s EXCEPT !.pending_settlements = MapRemove(@, cleanup_version)]
    IN  SettleAccounts(s1, cleanup_accounts, settlement, cleanup_version)

\* InnerState::process_settlement
ProcessSettlement(s, settlement) ==
    LET cleanup_version == Decrement(s.last_settled_version)
        cleanup_accounts ==
            MapGet(s.pending_settlements, cleanup_version, {})
                \cup DOMAIN settlement
        s1 == [s EXCEPT !.pending_settlements = MapRemove(@, cleanup_version)]
    IN  SettleAccounts(s1, cleanup_accounts, settlement, cleanup_version)

\* ---------------------------------------------------------------- facade
\* The inner for loop of schedule_withdraws: the accounts of one withdraw,
\* in the order of the keys of its BTreeMap.
RECURSIVE ReserveAccounts(_, _, _, _)
ReserveAccounts(s, bal, accounts, tx) ==
    IF accounts = {} \/ s.panicked # NoPanic
    THEN s
    ELSE
    LET object_id == Min(accounts)
        s1 == IF object_id \in DOMAIN s.tracked_accounts
              THEN s
              ELSE [s EXCEPT
                      !.tracked_accounts =
                          MapPut(@, object_id, NewAccountState(bal, object_id)),
                      !.reads = @ \cup {<<object_id, s.last_settled_version>>}]
    IN  ReserveAccounts(TryReserve(s1, object_id, tx), bal,
                        accounts \ {object_id}, tx)

\* WithdrawReservations.withdraws[i]: the i-th TxBalanceWithdraw of the batch;
\* the digests are handed out in order of submission.
WithdrawAt(withdraws, first_tx, i) ==
    [tx_digest |-> first_tx + i - 1, reservations |-> withdraws[i]]
\* WithdrawReservations.senders[i]: the sender of the i-th oneshot channel made
\* for the batch; the channels are numbered in order of creation, and the
\* caller holds the receivers in the same order.
SenderAt(first_tx, i) == first_tx + i - 1

\* The outer for loop of schedule_withdraws; the Arc of the i-th withdraw is
\* known by its number of submission, first_tx + i - 1.
RECURSIVE ScheduleLoop(_, _, _, _, _, _)
ScheduleLoop(s, bal, accumulator_version, withdraws, first_tx, i) ==
    IF i > Len(withdraws) \/ s.panicked # NoPanic
    THEN s
    ELSE
    LET tx == first_tx + i - 1
        accounts == DOMAIN withdraws[i]
        s1 == [s EXCEPT
                 !.pending_settlements =
                     MapPut(@, accumulator_version,
                            MapGet(@, accumulator_version, {}) \cup accounts),
                 !.pending_withdraws =
                     MapPut(@, tx,
                            NewPendingWithdraw(accumulator_version,
                                               WithdrawAt(withdraws, first_tx, i),
                                               SenderAt(first_tx, i))),
                 !.results = MapPut(@, tx, <<>>)]
    IN  ScheduleLoop(ReserveAccounts(s1, bal, accounts, tx), bal,
                     accumulator_version, withdraws, first_tx, i + 1)

\* The loop of the already-settled branch of schedule_withdraws.
RECURSIVE SendAlreadyExecuted(_, _, _, _)
SendAlreadyExecuted(s, withdraws, first_tx, i) ==
    IF i > Len(withdraws)
    THEN s
    ELSE SendAlreadyExecuted(
             Send(s, SenderAt(first_tx, i),
                  WithdrawAt(withdraws, first_tx, i).tx_digest,
                  "AlreadyExecuted"),
             withdraws, first_tx, i + 1)

\* mutant: no version is taken for settled
AlreadySettledNever(accumulator_version, last_settled) == FALSE

\* mutant: the current version is taken for settled too
AlreadySettledInclusive(accumulator_version, last_settled) ==
    accumulator_version <= last_settled

\* The `accumulator_version < last_settled_version` test of schedule_withdraws
AlreadySettled(accumulator_version, last_settled) ==
    accumulator_version < last_settled

\* EagerBalanceWithdrawScheduler::schedule_withdraws
ScheduleWithdraws(s, bal, accumulator_version, withdraws, first_tx) ==
    IF AlreadySettled(accumulator_version, s.last_settled_version)
    THEN SendAlreadyExecuted(s, withdraws, first_tx, 1)
    ELSE LET s1 == ScheduleLoop(s, bal, accumulator_version, withdraws,
                                first_tx, 1)
         IN  IF s1.panicked # NoPanic
             THEN s1
             ELSE ProcessSettlement(s1, EmptyMap)

\* mutant: settle_balances forgets to advance the version
SettleBalancesNoIncrement(s, settlement) == ProcessSettlement(s, settlement)

\* mutant: the settlement walks every tracked account
SettleBalancesAllAccounts(s, settlement) ==
    LET cleanup_version == s.last_settled_version
        s1 == [s EXCEPT !.last_settled_version = Increment(@),
                        !.pending_settlements = MapRemove(@, cleanup_version)]
    IN  SettleAccounts(s1, DOMAIN s.tracked_accounts \cup DOMAIN settlement,
                       settlement, cleanup_version)

\* EagerBalanceWithdrawScheduler::settle_balances
SettleBalances(s, settlement) ==
    ProcessSettlement(
        [s EXCEPT !.last_settled_version = Increment(@)], settlement)

\* MockBalanceRead::settle_balance_changes
SettleBalanceChanges(bal, changes) ==
    [a \in DOMAIN bal |-> bal[a] + MapGet(changes, a, 0)]

\* ---------------------------------------------------------------- inputs
\* TxBalanceWithdraw.reservations: BTreeMap<ObjectID, u64>
ReservationMaps ==
    UNION {[A -> Amounts] : A \in SUBSET Accounts}
Batches(n) == [1..n -> ReservationMaps]
\* BalanceSettlement.balance_changes: BTreeMap<ObjectID, i128>
Settlements ==
    UNION {[A -> Deltas] : A \in SUBSET Accounts}
\* The feed never drives a balance below zero.
FeedAllowed(bal, changes) ==
    \A a \in DOMAIN changes : bal[a] + changes[a] >= 0

\* ---------------------------------------------------------------- actions
Init ==
    /\ \E b \in [Accounts -> 0..MaxBalance] : balances = b
    /\ tracked_accounts = EmptyMap
    /\ pending_settlements = EmptyMap
    /\ last_settled_version = StartingVersion
    /\ pending_withdraws = EmptyMap
    /\ results = EmptyMap
    /\ digests = EmptyMap
    /\ reads = {}
    /\ panicked = NoPanic
    /\ next_tx = 1
    /\ call = [op |-> "new", version |-> StartingVersion]
    /\ det = <<>>

Install(s) ==
    /\ tracked_accounts' = s.tracked_accounts
    /\ pending_settlements' = s.pending_settlements
    /\ last_settled_version' = s.last_settled_version
    /\ pending_withdraws' = s.pending_withdraws
    /\ results' = s.results
    /\ digests' = s.digests
    /\ reads' = s.reads
    /\ panicked' = s.panicked

\* BalanceWithdrawSchedulerTrait::schedule_withdraws
Schedule ==
    /\ panicked = NoPanic
    /\ \E v \in Versions, n \in 1..MaxBatch :
         /\ next_tx..(next_tx + n - 1) \subseteq TxDigests
         /\ \E withdraws \in Batches(n) :
              /\ Install(ScheduleWithdraws(SchedulerState, balances, v,
                                           withdraws, next_tx))
              /\ next_tx' = next_tx + Len(withdraws)
              /\ call' = [op |-> "schedule_withdraws", version |-> v]
    /\ UNCHANGED <<balances, det>>

\* TestScheduler::settle_balance_changes
Settle ==
    /\ panicked = NoPanic
    /\ last_settled_version < MaxVersion
    /\ \E changes \in Settlements :
         /\ FeedAllowed(balances, changes)
         /\ balances' = SettleBalanceChanges(balances, changes)
         /\ Install(SettleBalances(SchedulerState, changes))
         /\ call' = [op |-> "settle_balances", version |-> last_settled_version]
    /\ UNCHANGED <<next_tx, det>>

Next == Schedule \/ Settle

Spec == Init /\ [][Next]_vars

\* ---------------------------------------------------------------- determinism run
\* One scheduler fed a fixed list of per-version batches and settlements, as
\* balance_withdraw_scheduler_stress_test feeds it: the batches are submitted
\* in version order by one task, the settlements in version order by another,
\* and the settlement of version V waits for the batch of V to be submitted.
DetBatches == 2
DetSettlements == 1

DetFeeds ==
    [balances : [Accounts -> 0..MaxBalance],
     batches : [1..DetBatches -> [1..1 -> ReservationMaps \ {EmptyMap}]],
     settlements : [1..DetSettlements -> Settlements]]

RECURSIVE BalancesAfter(_, _, _)
BalancesAfter(bal, settlements, n) ==
    IF n = 0 THEN bal
    ELSE SettleBalanceChanges(BalancesAfter(bal, settlements, n - 1),
                              settlements[n])

FeedValid(feed) ==
    \A n \in 1..Len(feed.settlements) :
        FeedAllowed(BalancesAfter(feed.balances, feed.settlements, n - 1),
                    feed.settlements[n])

\* digest of the first withdraw of batch i
RECURSIVE FirstTx(_, _)
FirstTx(batches, i) ==
    IF i = 1 THEN 1 ELSE FirstTx(batches, i - 1) + Len(batches[i - 1])

Guarded(s, t) == IF s.panicked # NoPanic THEN s ELSE t

\* The order in which every batch is submitted when its version is current:
\* batch 0, settlement 0, batch 1, settlement 1, ...
RECURSIVE SequentialRun(_, _, _)
SequentialRun(s, feed, i) ==
    IF i > Len(feed.batches) /\ i > Len(feed.settlements)
    THEN s
    ELSE
    LET bal == BalancesAfter(feed.balances, feed.settlements, i - 1)
        s1 == IF i <= Len(feed.batches)
              THEN Guarded(s, ScheduleWithdraws(s, bal, StartingVersion + i - 1,
                                                feed.batches[i],
                                                FirstTx(feed.batches, i)))
              ELSE s
        s2 == IF i <= Len(feed.settlements)
              THEN Guarded(s1, SettleBalances(s1, feed.settlements[i]))
              ELSE s1
    IN  SequentialRun(s2, feed, i + 1)

InitDet ==
    /\ \E feed \in DetFeeds :
         /\ FeedValid(feed)
         /\ det = [feed |-> feed, submitted |-> 0]
         /\ balances = feed.balances
    /\ tracked_accounts = EmptyMap
    /\ pending_settlements = EmptyMap
    /\ last_settled_version = StartingVersion
    /\ pending_withdraws = EmptyMap
    /\ results = EmptyMap
    /\ digests = EmptyMap
    /\ reads = {}
    /\ panicked = NoPanic
    /\ next_tx = 1
    /\ call = [op |-> "new", version |-> StartingVersion]

\* the scheduling task of the stress test submits its next batch
DetSchedule ==
    /\ panicked = NoPanic
    /\ det.submitted < Len(det.feed.batches)
    /\ LET i == det.submitted + 1
           v == StartingVersion + i - 1
       IN  /\ Install(ScheduleWithdraws(SchedulerState, balances, v,
                                        det.feed.batches[i], next_tx))
           /\ next_tx' = next_tx + Len(det.feed.batches[i])
           /\ call' = [op |-> "schedule_withdraws", version |-> v]
           /\ det' = [det EXCEPT !.submitted = i]
    /\ UNCHANGED balances

\* the settle task of the stress test applies its next settlement
DetSettle ==
    /\ panicked = NoPanic
    /\ LET i == last_settled_version - StartingVersion + 1
       IN  /\ i <= Len(det.feed.settlements)
           /\ det.submitted >= i
           /\ balances' = SettleBalanceChanges(balances, det.feed.settlements[i])
           /\ Install(SettleBalances(SchedulerState, det.feed.settlements[i]))
           /\ call' = [op |-> "settle_balances", version |-> last_settled_version]
    /\ UNCHANGED <<next_tx, det>>

NextDet == DetSchedule \/ DetSettle

SpecDet == InitDet /\ [][NextDet]_vars

DetDone ==
    /\ det.submitted = Len(det.feed.batches)
    /\ last_settled_version = StartingVersion + Len(det.feed.settlements)

\* ---------------------------------------------------------------- tests.rs scenarios
\* The scheduler driven with the balances, batches and settlements that the
\* unit tests of tests.rs use, in any order; `det` records the initial balances
\* and the calls made so far. Account 1 is `account` / `account1`, account 2
\* is `account2`.
TestBalances ==
    {1 :> 100, 1 :> 90, 1 :> 100 @@ 2 :> 100, 1 :> 100 @@ 2 :> 200}
\* the batches of the tests, one per schedule_withdraws call
WaitBatch == <<1 :> 200>>
CycleBatch == <<1 :> 60>>
SameVersionBatch == <<1 :> 50, 1 :> 50, 1 :> 40>>
MultiAccountBatch == <<1 :> 100 @@ 2 :> 200, 1 :> 1, 2 :> 100>>
AlreadyExecutedBatch == <<1 :> 50, 2 :> 100>>
TestBatches ==
    {WaitBatch, CycleBatch, SameVersionBatch, MultiAccountBatch,
     AlreadyExecutedBatch}
\* the balance changes the tests settle
TestSettlements == {1 :> -60, 1 :> 20, EmptyMap}
\* at most three withdraws are submitted by a test
TestDigests == {1, 2, 3}

ScheduleCall(v, withdraws) ==
    [op |-> "schedule_withdraws", version |-> v, arg |-> withdraws]
SettleCall(v, changes) ==
    [op |-> "settle_balances", version |-> v, arg |-> changes]

InitTests ==
    /\ \E b \in TestBalances :
         /\ balances = b
         /\ det = [init |-> b, calls |-> <<>>]
    /\ tracked_accounts = EmptyMap
    /\ pending_settlements = EmptyMap
    /\ last_settled_version = StartingVersion
    /\ pending_withdraws = EmptyMap
    /\ results = EmptyMap
    /\ digests = EmptyMap
    /\ reads = {}
    /\ panicked = NoPanic
    /\ next_tx = 1
    /\ call = [op |-> "new", version |-> StartingVersion]

\* test.scheduler.schedule_withdraws(version, batch)
TestSchedule ==
    /\ panicked = NoPanic
    /\ \E v \in Versions, withdraws \in TestBatches :
         /\ next_tx..(next_tx + Len(withdraws) - 1) \subseteq TestDigests
         /\ Install(ScheduleWithdraws(SchedulerState, balances, v, withdraws,
                                      next_tx))
         /\ next_tx' = next_tx + Len(withdraws)
         /\ call' = [op |-> "schedule_withdraws", version |-> v]
         /\ det' = [det EXCEPT !.calls = Append(@, ScheduleCall(v, withdraws))]
    /\ UNCHANGED balances

\* test.settle_balance_changes(changes)
TestSettle ==
    /\ panicked = NoPanic
    /\ last_settled_version < MaxVersion
    /\ \E changes \in TestSettlements :
         /\ FeedAllowed(balances, changes)
         /\ balances' = SettleBalanceChanges(balances, changes)
         /\ Install(SettleBalances(SchedulerState, changes))
         /\ call' = [op |-> "settle_balances", version |-> last_settled_version]
         /\ det' = [det EXCEPT
                      !.calls = Append(@, SettleCall(last_settled_version,
                                                     changes))]
    /\ UNCHANGED next_tx

NextTests == TestSchedule \/ TestSettle

SpecTests == InitTests /\ [][NextTests]_vars

\* the test has made exactly these calls, from these initial balances
TestRun(init, calls) == det.init = init /\ det.calls = calls

\* ---------------------------------------------------------------- concurrent callers
\* Several threads, each making one call on the same scheduler. A call takes
\* the InnerState mutex first (`self.inner_state.lock()`), runs its statements
\* one group at a time and gives the mutex back when the guard is dropped at
\* its return. `det` holds the threads, the holder of the mutex (0: free),
\* the order in which the threads took it, and the initial balances. The
\* withdraw of thread t has digest t. The reader answers for the version it
\* is asked about, so its answer changes with last_settled_version.
Threads == {1, 2, 3}
MutexCalls ==
    {ScheduleCall(v, <<r>>) : v \in {0, 1}, r \in {1 :> 1, 1 :> 2, 2 :> 1,
                                                  1 :> 1 @@ 2 :> 1}}
        \cup {SettleCall(0, c) : c \in {EmptyMap, 1 :> 1, 1 :> -1, 2 :> 2}}

\* mutant: the state is entered without waiting for the mutex
MutexFreeAlways(lock) == TRUE

\* parking_lot::Mutex::lock returns when no other thread holds the mutex
MutexFree(lock) == lock = 0

InitMutex ==
    /\ \E b \in [Accounts -> 0..MaxBalance], calls \in [Threads -> MutexCalls] :
         /\ balances = b
         /\ det = [threads |-> [t \in Threads |->
                                   [pc |-> "ready", call |-> calls[t]]],
                   lock |-> 0, order |-> <<>>, init |-> b]
    /\ tracked_accounts = EmptyMap
    /\ pending_settlements = EmptyMap
    /\ last_settled_version = StartingVersion
    /\ pending_withdraws = EmptyMap
    /\ results = EmptyMap
    /\ digests = EmptyMap
    /\ reads = {}
    /\ panicked = NoPanic
    /\ next_tx = 1
    /\ call = [op |-> "new", version |-> StartingVersion]

\* `let mut inner_state = self.inner_state.lock();`
Acquire(t) ==
    /\ panicked = NoPanic
    /\ det.threads[t].pc = "ready"
    /\ MutexFree(det.lock)
    /\ det.threads[t].call.op = "settle_balances"
           => FeedAllowed(balances, det.threads[t].call.arg)
    /\ det' = [det EXCEPT !.threads[t].pc = "locked", !.lock = t,
                          !.order = Append(@, t)]
    /\ UNCHANGED <<tracked_accounts, pending_settlements, last_settled_version,
                   pending_withdraws, results, digests, reads, panicked,
                   balances, next_tx, call>>

\* the return of a call: the guard is dropped
Release(d, t) == [d EXCEPT !.threads[t].pc = "done", !.lock = 0]

\* schedule_withdraws up to its last statement
ScheduleBody(t) ==
    /\ panicked = NoPanic
    /\ det.threads[t].pc = "locked"
    /\ det.threads[t].call.op = "schedule_withdraws"
    /\ LET c == det.threads[t].call
           s == SchedulerState
       IN  /\ IF AlreadySettled(c.version, last_settled_version)
              THEN /\ Install(SendAlreadyExecuted(s, c.arg, t, 1))
                   /\ det' = Release(det, t)
              ELSE /\ Install(ScheduleLoop(s, balances, c.version, c.arg, t, 1))
                   /\ det' = [det EXCEPT !.threads[t].pc = "tail"]
           /\ call' = [op |-> c.op, version |-> c.version]
    /\ UNCHANGED <<balances, next_tx>>

\* `inner_state.process_settlement(BTreeMap::new());` and the return
ScheduleTail(t) ==
    /\ panicked = NoPanic
    /\ det.threads[t].pc = "tail"
    /\ det.threads[t].call.op = "schedule_withdraws"
    /\ Install(ProcessSettlement(SchedulerState, EmptyMap))
    /\ det' = Release(det, t)
    /\ UNCHANGED <<balances, next_tx, call>>

\* `inner_state.last_settled_version.increment();`
SettleIncrement(t) ==
    /\ panicked = NoPanic
    /\ det.threads[t].pc = "locked"
    /\ det.threads[t].call.op = "settle_balances"
    /\ call' = [op |-> "settle_balances", version |-> last_settled_version]
    /\ last_settled_version' = Increment(last_settled_version)
    /\ balances' = SettleBalanceChanges(balances, det.threads[t].call.arg)
    /\ det' = [det EXCEPT !.threads[t].pc = "tail"]
    /\ UNCHANGED <<tracked_accounts, pending_settlements, pending_withdraws,
                   results, digests, reads, panicked, next_tx>>

\* `inner_state.process_settlement(settlement.balance_changes);` and the return
SettleProcess(t) ==
    /\ panicked = NoPanic
    /\ det.threads[t].pc = "tail"
    /\ det.threads[t].call.op = "settle_balances"
    /\ Install(ProcessSettlement(SchedulerState, det.threads[t].call.arg))
    /\ det' = Release(det, t)
    /\ UNCHANGED <<balances, next_tx, call>>

NextMutex ==
    \E t \in Threads :
        \/ Acquire(t)
        \/ ScheduleBody(t)
        \/ ScheduleTail(t)
        \/ SettleIncrement(t)
        \/ SettleProcess(t)

SpecMutex == InitMutex /\ [][NextMutex]_vars

\* ---------------------------------------------------------------- dropped receivers
\* The scheduler called by a caller that may drop any of the receivers it is
\* handed, at any time. `det` holds the initial balances, the calls made so
\* far and the receivers dropped so far.
DropMaps == {1 :> 1, 1 :> 2, 1 :> 1 @@ 2 :> 1}
DropBatches ==
    {<<r>> : r \in DropMaps} \cup {<<r1, r2>> : r1 \in DropMaps, r2 \in DropMaps}
DropVersions == {0, 1}
DropSettlements == {EmptyMap, 1 :> 1, 1 :> -1, 1 :> 2, 2 :> 2}

InitDrop ==
    /\ \E b \in [Accounts -> 0..MaxBalance] :
         /\ balances = b
         /\ det = [init |-> b, calls |-> <<>>, dropped |-> {}]
    /\ tracked_accounts = EmptyMap
    /\ pending_settlements = EmptyMap
    /\ last_settled_version = StartingVersion
    /\ pending_withdraws = EmptyMap
    /\ results = EmptyMap
    /\ digests = EmptyMap
    /\ reads = {}
    /\ panicked = NoPanic
    /\ next_tx = 1
    /\ call = [op |-> "new", version |-> StartingVersion]

\* the scheduler state as the call finds it, with the receivers that are gone
DropState == [SchedulerState EXCEPT !.dropped = det.dropped]

\* schedule_withdraws, some receivers of earlier or of this batch being gone
DropSchedule ==
    /\ panicked = NoPanic
    /\ \E v \in DropVersions, withdraws \in DropBatches :
         /\ next_tx..(next_tx + Len(withdraws) - 1) \subseteq TxDigests
         /\ Install(ScheduleWithdraws(DropState, balances, v, withdraws,
                                      next_tx))
         /\ next_tx' = next_tx + Len(withdraws)
         /\ call' = [op |-> "schedule_withdraws", version |-> v]
         /\ det' = [det EXCEPT !.calls = Append(@, ScheduleCall(v, withdraws))]
    /\ UNCHANGED balances

\* settle_balance_changes, some receivers being gone
DropSettle ==
    /\ panicked = NoPanic
    /\ last_settled_version < MaxVersion
    /\ \E changes \in DropSettlements :
         /\ FeedAllowed(balances, changes)
         /\ balances' = SettleBalanceChanges(balances, changes)
         /\ Install(SettleBalances(DropState, changes))
         /\ call' = [op |-> "settle_balances", version |-> last_settled_version]
         /\ det' = [det EXCEPT
                      !.calls = Append(@, SettleCall(last_settled_version,
                                                     changes))]
    /\ UNCHANGED next_tx

\* the caller drops the receiver of a channel (one it holds, or one it will
\* let go as soon as it is handed it)
DropReceiver ==
    /\ panicked = NoPanic
    /\ \E r \in TxDigests \ det.dropped :
         det' = [det EXCEPT !.dropped = @ \cup {r}]
    /\ UNCHANGED <<tracked_accounts, pending_settlements, last_settled_version,
                   pending_withdraws, results, digests, reads, panicked,
                   balances, next_tx, call>>

NextDrop == DropSchedule \/ DropSettle \/ DropReceiver

SpecDrop == InitDrop /\ [][NextDrop]_vars

\* the calls made one after another on a scheduler all of whose receivers
\* are alive
RECURSIVE Replay(_, _, _, _, _)
Replay(s, bal, first_tx, calls, i) ==
    IF i > Len(calls)
    THEN s
    ELSE
    LET c == calls[i]
    IN  IF c.op = "schedule_withdraws"
        THEN Replay(Guarded(s, ScheduleWithdraws(s, bal, c.version, c.arg,
                                                 first_tx)),
                    bal, first_tx + Len(c.arg), calls, i + 1)
        ELSE Replay(Guarded(s, SettleBalances(s, c.arg)),
                    SettleBalanceChanges(bal, c.arg), first_tx, calls, i + 1)

\* ---------------------------------------------------------------- port helper
\* get_available_port_with_retries (crates/sui-config/src/local_ip_utils.rs),
\* one call followed statement by statement. `det` holds the arguments, the
\* build (with or without overflow checks), the position in the function,
\* the loop variable, what the calls of get_ephemeral_port have answered and
\* what the function returned. The scheduler is not involved.
Hosts == {"", "127.0.0.1"}
Ports == {1, 2}
MaxRetries == 66
\* `std::cmp::min(1 << attempt, 100)` is computed in u64, the type of the
\* argument of Duration::from_millis
BackoffBits == 64
BackoffCap == 100

NotReturned == [tag |-> "pending", port |-> 0]
None == [tag |-> "None", port |-> 0]
Some(port) == [tag |-> "Some", port |-> port]

\* min(1 << shift, 100) for shift < 64, doubling without leaving the cap
RECURSIVE CappedShl(_)
CappedShl(shift) ==
    IF shift = 0 THEN 1
    ELSE IF 2 * CappedShl(shift - 1) > BackoffCap THEN BackoffCap
    ELSE 2 * CappedShl(shift - 1)

\* `1 << attempt` overflows when attempt is not below the width of u64: a
\* build with overflow checks panics, a build without them shifts by
\* attempt modulo the width.
ShlOverflows(attempt) == attempt >= BackoffBits
BackoffMs(attempt) == CappedShl(attempt % BackoffBits)

InitPort ==
    /\ \E host \in Hosts, max_retries \in 0..MaxRetries,
          overflow_checks \in BOOLEAN :
         det = [host |-> host, max_retries |-> max_retries,
                overflow_checks |-> overflow_checks, pc |-> "check_host",
                attempt |-> 0, attempts |-> 0, failures |-> 0,
                backoff_ms |-> 0, returned |-> NotReturned]
    /\ tracked_accounts = EmptyMap
    /\ pending_settlements = EmptyMap
    /\ last_settled_version = StartingVersion
    /\ pending_withdraws = EmptyMap
    /\ results = EmptyMap
    /\ digests = EmptyMap
    /\ reads = {}
    /\ panicked = NoPanic
    /\ balances = [a \in Accounts |-> 0]
    /\ next_tx = 1
    /\ call = [op |-> "new", version |-> StartingVersion]

PortFrame ==
    UNCHANGED <<tracked_accounts, pending_settlements, last_settled_version,
                pending_withdraws, results, digests, reads, panicked, balances,
                next_tx, call>>

\* `if host.is_empty() { return None; }`
CheckHost ==
    /\ det.pc = "check_host"
    /\ det' = IF det.host = ""
              THEN [det EXCEPT !.pc = "done", !.returned = None]
              ELSE [det EXCEPT !.pc = "check_retries"]
    /\ PortFrame

\* `if max_retries == 0 { return None; }`
CheckMaxRetries ==
    /\ det.pc = "check_retries"
    /\ det' = IF det.max_retries = 0
              THEN [det EXCEPT !.pc = "done", !.returned = None]
              ELSE [det EXCEPT !.pc = "loop", !.attempt = 0]
    /\ PortFrame

\* `match get_ephemeral_port(host)`: the attempt finds a port
AttemptOk ==
    /\ det.pc = "loop"
    /\ det.attempt < det.max_retries
    /\ \E port \in Ports :
         det' = [det EXCEPT !.attempts = @ + 1, !.pc = "done",
                            !.returned = Some(port)]
    /\ PortFrame

\* `match get_ephemeral_port(host)`: the attempt fails
AttemptErr ==
    /\ det.pc = "loop"
    /\ det.attempt < det.max_retries
    /\ det' = [det EXCEPT !.attempts = @ + 1, !.failures = @ + 1,
                          !.pc = "backoff"]
    /\ PortFrame

\* the backoff after a failed attempt and the step of the loop
Backoff ==
    /\ det.pc = "backoff"
    /\ det' = IF det.attempt < det.max_retries - 1
              THEN IF ShlOverflows(det.attempt) /\ det.overflow_checks
                   THEN [det EXCEPT !.pc = "panicked"]
                   ELSE [det EXCEPT !.backoff_ms = BackoffMs(det.attempt),
                                    !.attempt = @ + 1, !.pc = "loop"]
              ELSE [det EXCEPT !.attempt = @ + 1, !.pc = "loop"]
    /\ PortFrame

\* the loop is over without a port: `None`
ReturnNone ==
    /\ det.pc = "loop"
    /\ det.attempt >= det.max_retries
    /\ det' = [det EXCEPT !.pc = "done", !.returned = None]
    /\ PortFrame

NextPort ==
    \/ CheckHost
    \/ CheckMaxRetries
    \/ AttemptOk
    \/ AttemptErr
    \/ Backoff
    \/ ReturnNone

SpecPort == InitPort /\ [][NextPort]_vars

\* ---------------------------------------------------------------- properties
Queue(a) == tracked_accounts[a].pending_reservations
Queued(a) == {Queue(a)[i] : i \in 1..Len(Queue(a))}
Verdicts(tx) == {results[tx][i] : i \in 1..Len(results[tx])}
\* the digests of the withdraws submitted by the step
NewTxs == next_tx..(next_tx' - 1)
\* a step of schedule_withdraws creates at least one digest, a settle step none
ScheduleStep == next_tx' # next_tx
SettleStep == next_tx' = next_tx
\* the withdraw has had an amount committed on the account
CommittedOn(tx, a) ==
    /\ a \in DOMAIN pending_withdraws[tx].reservations
    /\ a \notin DOMAIN pending_withdraws[tx].pending

\* C1: no withdraw is ever delivered more than one verdict: each receiver has
\* been sent at most one status, and a withdraw whose verdict has been sent has
\* no sender left.
ExactlyOnceVerdict ==
    \A tx \in DOMAIN results :
        /\ Len(results[tx]) <= 1
        /\ (tx \in DOMAIN pending_withdraws /\ results[tx] # <<>>)
               => ~pending_withdraws[tx].sender

\* a withdraw rejected on two accounts: the second rejection found no sender
ExactlyOnceVerdictWitness ==
    /\ panicked = NoPanic
    /\ \E tx \in DOMAIN pending_withdraws :
         /\ results[tx] = <<"InsufficientBalance">>
         /\ Cardinality(DOMAIN pending_withdraws[tx].pending) = 2
         /\ \A a \in DOMAIN tracked_accounts : tx \notin Queued(a)

\* C2: every withdraw accepted at version V (naming at least one account) has
\* its verdict by the time V has closed, i.e. once last_settled_version has
\* passed V: no withdraw is left without a verdict after its version closed.
VerdictOnceVersionClosed ==
    \A tx \in DOMAIN pending_withdraws :
        (/\ pending_withdraws[tx].reservations # EmptyMap
         /\ pending_withdraws[tx].accumulator_version < last_settled_version)
            => results[tx] # <<>>

\* C3: min_guaranteed_balance never goes below zero and the assertion that
\* guards the subtraction in commit_reservation never fails.
ReservationBounded ==
    /\ \A a \in DOMAIN tracked_accounts :
           tracked_accounts[a].min_guaranteed_balance >= 0
    /\ panicked # "assert_min_guaranteed_balance"

\* C4 (state part): while a withdraw sits in the queue of an account, no
\* withdraw that arrived after it has an amount committed on that account.
FifoQueued ==
    \A a \in DOMAIN tracked_accounts :
        \A w \in Queued(a) :
            \A later \in DOMAIN pending_withdraws :
                later > w => ~CommittedOn(later, a)

\* C4 (step part): when a later arrival gets committed on the account, every
\* withdraw that was queued there before it has been committed on the account
\* or rejected.
FifoStep ==
    \A a \in DOMAIN tracked_accounts :
        \A w \in Queued(a) :
            \A later \in DOMAIN pending_withdraws' :
                (later > w /\ CommittedOn(later, a)')
                    => \/ CommittedOn(w, a)'
                       \/ "InsufficientBalance" \in Verdicts(w)'

\* C4: FIFO per account: once a withdraw is queued on an account, no withdraw
\* that arrived after it is committed on that account until the queued one has
\* been committed there or rejected, even if the later amount would fit.
FifoPerAccount == []FifoQueued /\ [][FifoStep]_vars

\* a later arrival waits behind a queued withdraw although its amount fits
FifoPerAccountWitness ==
    \E a \in DOMAIN tracked_accounts :
        /\ Len(Queue(a)) >= 2
        /\ Queue(a)[2] > Queue(a)[1]
        /\ pending_withdraws[Queue(a)[2]].pending[a]
               <= tracked_accounts[a].min_guaranteed_balance
        /\ pending_withdraws[Queue(a)[2]].pending[a] > 0

\* C5: a withdraw has been delivered SufficientBalance exactly when its
\* pending map has become empty (a map that named no account never becomes
\* empty; a call that panics inside a commit does not deliver), and a withdraw
\* delivered SufficientBalance has no uncommitted account: while its version is
\* not released its amount is counted in reserved_balance under its version on
\* every account it names.
MultiAccountAtomicity ==
    \A tx \in DOMAIN pending_withdraws :
        LET w == pending_withdraws[tx]
            sufficient == "SufficientBalance" \in Verdicts(tx)
        IN  /\ sufficient => (w.reservations # EmptyMap /\ w.pending = EmptyMap)
            /\ (panicked = NoPanic /\ w.reservations # EmptyMap
                    /\ w.pending = EmptyMap) => sufficient
            /\ (sufficient /\ w.accumulator_version >= last_settled_version)
                   => \A a \in DOMAIN w.reservations :
                          /\ a \in DOMAIN tracked_accounts
                          /\ MapGet(tracked_accounts[a].reserved_balance,
                                    w.accumulator_version, 0) >= w.reservations[a]

\* a withdraw on two accounts has been delivered SufficientBalance
MultiAccountAtomicityWitness ==
    \E tx \in DOMAIN pending_withdraws :
        /\ results[tx] = <<"SufficientBalance">>
        /\ Cardinality(DOMAIN pending_withdraws[tx].reservations) = 2
        /\ pending_withdraws[tx].accumulator_version >= last_settled_version

\* C6: schedule_withdraws with a version strictly below last_settled_version
\* sends AlreadyExecuted to every withdraw of the batch and changes nothing
\* else: tracked accounts, pending_settlements, last_settled_version and the
\* pending withdraws are unchanged and no balance is read.
StaleScheduleChangesNothing ==
    [][(ScheduleStep /\ call'.version < last_settled_version)
          => /\ \A tx \in NewTxs : results'[tx] = <<"AlreadyExecuted">>
             /\ \A tx \in DOMAIN results : results'[tx] = results[tx]
             /\ DOMAIN results' = DOMAIN results \cup NewTxs
             /\ reads' = {}
             /\ panicked' = NoPanic
             /\ UNCHANGED <<tracked_accounts, pending_settlements,
                            last_settled_version, pending_withdraws>>]_vars

\* a stale batch was answered while accounts were being tracked
StaleScheduleWitness ==
    /\ call.op = "schedule_withdraws"
    /\ call.version < last_settled_version
    /\ tracked_accounts # EmptyMap
    /\ \E tx \in DOMAIN results :
           tx = next_tx - 1 /\ results[tx] = <<"AlreadyExecuted">>

\* C7 as stated: a batch whose version is less than or equal to
\* last_settled_version is answered AlreadyExecuted.
AlreadyExecutedAtOrBelow ==
    [][(ScheduleStep /\ call'.version <= last_settled_version)
          => \A tx \in NewTxs : results'[tx] = <<"AlreadyExecuted">>]_vars

\* C7 amended: a withdraw is answered AlreadyExecuted exactly when its version
\* is strictly below last_settled_version; a withdraw submitted with the
\* version equal to last_settled_version is accepted as a pending withdraw.
AlreadyExecutedStrictlyBelow ==
    [][ScheduleStep
          => \A tx \in NewTxs :
                 /\ ("AlreadyExecuted" \in Verdicts(tx)')
                        <=> call'.version < last_settled_version
                 /\ call'.version >= last_settled_version
                        => /\ tx \in DOMAIN pending_withdraws'
                           /\ pending_withdraws'[tx].accumulator_version
                                  = call'.version]_vars

\* a withdraw submitted at the settled version itself was accepted and served
AlreadyExecutedWitness ==
    /\ call.op = "schedule_withdraws"
    /\ call.version = last_settled_version
    /\ last_settled_version > StartingVersion
    /\ \E tx \in DOMAIN pending_withdraws :
           /\ tx = next_tx - 1
           /\ results[tx] = <<"SufficientBalance">>

\* C8: last_settled_version never decreases: a settle_balances call raises it
\* by exactly 1 and a schedule_withdraws call leaves it unchanged.
MonotoneSettlement ==
    [][/\ ScheduleStep => last_settled_version' = last_settled_version
       /\ SettleStep => last_settled_version' = last_settled_version + 1
       /\ last_settled_version' >= last_settled_version]_vars

\* two settlements have been applied, the last one to a scheduler with state
MonotoneSettlementWitness ==
    /\ call.op = "settle_balances"
    /\ last_settled_version = StartingVersion + 2
    /\ pending_withdraws # EmptyMap

\* the (tx_digest, status) pairs a run has produced
VerdictSet(res) ==
    UNION {{<<tx, res[tx][i]>> : i \in 1..Len(res[tx])} : tx \in DOMAIN res}

\* C9: every allowed interleaving of the fixed batches and settlements yields
\* the same set of (tx_digest, status) verdicts: a run that has made all its
\* calls has produced the verdicts that the sequential order (batch,
\* settlement, batch, ...) produces, neither run having panicked.
Determinism ==
    LET sequential == SequentialRun(NewScheduler(StartingVersion), det.feed, 1)
    IN  (DetDone /\ panicked = NoPanic /\ sequential.panicked = NoPanic)
            => VerdictSet(results) = VerdictSet(sequential.results)

\* C10: every queued withdraw has a version >= last_settled_version, and the
\* assertion of this made when a queued withdraw is examined never fails.
QueuedVersionsNotSettled ==
    /\ \A a \in DOMAIN tracked_accounts :
           \A w \in Queued(a) :
               pending_withdraws[w].accumulator_version >= last_settled_version
    /\ panicked # "assert_version"

\* C11: after every schedule_withdraws and settle_balances call, every tracked
\* AccountState has at least one per-version reservation or a non-empty
\* pending queue: an account for which both are empty is not tracked
\* (reservations and queues only exist inside tracked account states).
TrackedAccountLifecycle ==
    \A a \in DOMAIN tracked_accounts : ~IsEmpty(tracked_accounts[a])

\* the calls of test_schedules_and_settles
CycleCalls ==
    <<ScheduleCall(0, CycleBatch), ScheduleCall(1, CycleBatch),
      SettleCall(0, 1 :> -60), ScheduleCall(2, CycleBatch),
      SettleCall(1, 1 :> 20)>>

\* C12: schedule-and-settle cycle from balance {A: 100} at version 0: W0 (60
\* at V0) has SufficientBalance when its schedule_withdraws call returns; W1
\* (60 at V1) has no verdict before the settlement and InsufficientBalance
\* after settle_balances({A: -60}); W2 (60 at V2) has SufficientBalance after
\* settle_balances({A: +20}); no call fails.
ScheduleAndSettleCycle ==
    \A n \in 1..Len(CycleCalls) :
        TestRun(1 :> 100, SubSeq(CycleCalls, 1, n))
            => /\ panicked = NoPanic
               /\ results[1] = <<"SufficientBalance">>
               /\ n = 2 => results[2] = <<>>
               /\ n >= 3 => results[2] = <<"InsufficientBalance">>
               /\ n = 4 => results[3] = <<>>
               /\ n >= 5 => results[3] = <<"SufficientBalance">>

\* C13: same-version ordering on one account, balance {A: 90}: of the batch
\* (50, 50, 40) submitted at the current version 0, the second withdraw does
\* not fit what the first left, is delivered InsufficientBalance and reserves
\* nothing, and the third, which fits, is delivered SufficientBalance: when
\* the call has returned the verdicts are Sufficient, Insufficient,
\* Sufficient.
SameVersionOrdering ==
    TestRun(1 :> 90, <<ScheduleCall(0, SameVersionBatch)>>)
        => /\ results[1] = <<"SufficientBalance">>
           /\ results[2] = <<"InsufficientBalance">>
           /\ results[3] = <<"SufficientBalance">>
           /\ \A a \in DOMAIN tracked_accounts :
                  MapGet(tracked_accounts[a].reserved_balance, 0, 0) = 50 + 40

\* C14: multi-account batch at the current version 0 with balances
\* {A: 100, B: 100}: W1 (A: 100, B: 200) is delivered InsufficientBalance, W2
\* (A: 1), submitted after it, InsufficientBalance, and W3 (B: 100)
\* SufficientBalance.
MultiAccountBatchVerdicts ==
    TestRun(1 :> 100 @@ 2 :> 100, <<ScheduleCall(0, MultiAccountBatch)>>)
        => /\ results[1] = <<"InsufficientBalance">>
           /\ results[2] = <<"InsufficientBalance">>
           /\ results[3] = <<"SufficientBalance">>

\* C15: a withdraw (naming at least one account) submitted at a version equal
\* to last_settled_version has received its verdict when schedule_withdraws
\* returns, without any settle_balances call: the process_settlement call
\* that ends schedule_withdraws probes the queues of its accounts.
CurrentVersionDecidedBySchedule ==
    [][(ScheduleStep /\ call'.version = last_settled_version
            /\ panicked' = NoPanic)
          => \A tx \in NewTxs :
                 pending_withdraws'[tx].reservations # EmptyMap
                     => results'[tx] # <<>>]_vars

\* the withdraw is of a future version and reserves more on the account than
\* the account's balance
ExceedsBalance(w, a) ==
    /\ w.accumulator_version > last_settled_version
    /\ a \in DOMAIN w.reservations
    /\ w.reservations[a] > GetAccountBalance(balances, a)

\* C16: a withdraw submitted for a future version (version >
\* last_settled_version) whose amount on an account exceeds the account's
\* balance is queued on that account by its schedule_withdraws call, without
\* a verdict and without a commit there, and every further schedule_withdraws
\* call leaves it so: as long as no settle_balances call happens it is
\* neither committed nor rejected.
NoVerdictWithoutSettlement ==
    [][ScheduleStep
          => /\ \A tx \in NewTxs :
                    tx \in DOMAIN pending_withdraws' =>
                        \A a \in Accounts :
                            ExceedsBalance(pending_withdraws'[tx], a)
                                => /\ results'[tx] = <<>>
                                   /\ tx \in Queued(a)'
                                   /\ ~CommittedOn(tx, a)'
             /\ \A tx \in DOMAIN pending_withdraws :
                    \A a \in DOMAIN tracked_accounts :
                        (/\ ExceedsBalance(pending_withdraws[tx], a)
                         /\ results[tx] = <<>>
                         /\ tx \in Queued(a))
                            => /\ results'[tx] = <<>>
                               /\ a \in DOMAIN tracked_accounts'
                               /\ tx \in Queued(a)'
                               /\ ~CommittedOn(tx, a)']_vars

\* a future-version withdraw exceeding the balance is still queued without a
\* verdict after a later schedule_withdraws call of another version
NoVerdictWithoutSettlementWitness ==
    /\ call.op = "schedule_withdraws"
    /\ panicked = NoPanic
    /\ \E tx \in DOMAIN pending_withdraws, a \in DOMAIN tracked_accounts :
           /\ ExceedsBalance(pending_withdraws[tx], a)
           /\ results[tx] = <<>>
           /\ tx \in Queued(a)
           /\ tx + 1 \in DOMAIN pending_withdraws
           /\ pending_withdraws[tx + 1].accumulator_version = call.version
           /\ pending_withdraws[tx].accumulator_version # call.version

\* the outcome of settle_balances called now with an empty delta map
EmptySettlement == SettleBalances(SchedulerState, EmptyMap)

\* C17: settle_balances with an empty delta map, called when no queued
\* withdraw is of an already settled or the closing version, does not fail,
\* advances last_settled_version by one, releases the reservations held under
\* the version that just closed and drains the queues of the accounts touched
\* at that version: no withdraw of the new last_settled_version, decidable
\* now, is left at the head of such a queue.
SettleEmptyDeltas ==
    (/\ panicked = NoPanic
     /\ \A a \in DOMAIN tracked_accounts :
            \A w \in Queued(a) :
                pending_withdraws[w].accumulator_version > last_settled_version)
        => LET s == EmptySettlement
               closed == last_settled_version
           IN  /\ s.panicked = NoPanic
               /\ s.last_settled_version = closed + 1
               /\ \A a \in DOMAIN s.tracked_accounts :
                      closed \notin DOMAIN s.tracked_accounts[a].reserved_balance
               /\ \A a \in MapGet(pending_settlements, closed, {})
                              \cap DOMAIN s.tracked_accounts :
                      LET queue == s.tracked_accounts[a].pending_reservations
                      IN  queue # <<>>
                              => s.pending_withdraws[Head(queue)]
                                     .accumulator_version > closed + 1

\* the threads that are inside a call, holding the state
Inside == {t \in Threads : det.threads[t].pc \in {"locked", "tail"}}
\* the settle_balances calls that have incremented the version
SettlesApplied ==
    {t \in Threads : /\ det.threads[t].call.op = "settle_balances"
                     /\ det.threads[t].pc \in {"tail", "done"}}

\* whole calls made one after another, in the given order of threads
RECURSIVE SerialRun(_, _, _, _)
SerialRun(s, bal, order, i) ==
    IF i > Len(order)
    THEN s
    ELSE
    LET t == order[i]
        c == det.threads[t].call
    IN  IF c.op = "schedule_withdraws"
        THEN SerialRun(Guarded(s, ScheduleWithdraws(s, bal, c.version, c.arg, t)),
                       bal, order, i + 1)
        ELSE SerialRun(Guarded(s, SettleBalances(s, c.arg)),
                       IF s.panicked = NoPanic
                       THEN SettleBalanceChanges(bal, c.arg) ELSE bal,
                       order, i + 1)

\* C18: calls made by several threads are serialised by the InnerState
\* mutex: at most one thread is inside a call at any time, whenever no
\* thread is inside a call the state is the state that the whole calls made
\* one after another, in the order in which they took the mutex, produce, and
\* n settle_balances calls have advanced last_settled_version by exactly n.
SerialisedByMutex ==
    /\ Cardinality(Inside) <= 1
    /\ last_settled_version = StartingVersion + Cardinality(SettlesApplied)
    /\ Inside = {}
           => LET s == SerialRun(NewScheduler(StartingVersion), det.init,
                                 det.order, 1)
              IN  /\ tracked_accounts = s.tracked_accounts
                  /\ pending_settlements = s.pending_settlements
                  /\ last_settled_version = s.last_settled_version
                  /\ pending_withdraws = s.pending_withdraws
                  /\ results = s.results
                  /\ panicked = s.panicked

\* three threads have finished, two of them settlements, the withdraw of the
\* third was accepted and served, and the mutex was not taken in the order
\* of the thread numbers
SerialisedByMutexWitness ==
    /\ panicked = NoPanic
    /\ \A t \in Threads : det.threads[t].pc = "done"
    /\ Cardinality(SettlesApplied) = 2
    /\ det.order # <<1, 2, 3>>
    /\ \E tx \in DOMAIN results : results[tx] = <<"SufficientBalance">>

\* the net change the settlement of the step applies to the account: what it
\* adds to the balance the reader reports (a change is never 0)
SettledDelta(a) == balances'[a] - balances[a]
\* the account is walked by the process_settlement of a settle step
Visited(a) ==
    \/ a \in MapGet(pending_settlements, last_settled_version, {})
    \/ SettledDelta(a) # 0
\* min_guaranteed_balance of the account when the drain of the step starts:
\* the reservation of the closing version is released with the settled delta
MinAfterRelease(a) ==
    tracked_accounts[a].min_guaranteed_balance
        + MapGet(tracked_accounts[a].reserved_balance, last_settled_version, 0)
        + SettledDelta(a)

\* C19: in the drain of an account's queue, the head withdraw is popped and
\* committed if its pending amount on the account is less than or equal to
\* min_guaranteed_balance (the call not failing), and a head whose amount
\* exceeds min_guaranteed_balance is not committed: it is not handed to
\* commit_reservation, whose assertion would fail.
DrainCommitsWhatFits ==
    [][SettleStep
          => \A a \in DOMAIN tracked_accounts :
                 (Visited(a) /\ Queue(a) # <<>>)
                     => \A w \in {Head(Queue(a))} :
                        LET amount == pending_withdraws[w].pending[a]
                        IN  /\ (panicked' = NoPanic
                                    /\ amount <= MinAfterRelease(a))
                                   => CommittedOn(w, a)'
                            /\ amount > MinAfterRelease(a)
                                   => /\ ~CommittedOn(w, a)'
                                      /\ panicked'
                                             # "assert_min_guaranteed_balance"]_vars

\* C20: a step delivers InsufficientBalance only to a withdraw whose version
\* is the last_settled_version of the drain and that is queued on a walked
\* account with a pending amount exceeding that account's
\* min_guaranteed_balance: more than the drain started with if the withdraw
\* was the head, and more than the drain left if the account stays tracked.
\* A withdraw whose amounts all fit is not rejected.
RejectedOnlyWhenExceeding ==
    [][\A tx \in DOMAIN pending_withdraws :
           (results[tx] = <<>> /\ results'[tx] = <<"InsufficientBalance">>)
               => /\ pending_withdraws[tx].accumulator_version
                         = last_settled_version'
                  /\ \E a \in DOMAIN tracked_accounts :
                         /\ tx \in Queued(a)
                         /\ Visited(a)
                         /\ tx = Head(Queue(a))
                                => pending_withdraws[tx].pending[a]
                                       > MinAfterRelease(a)
                         /\ a \in DOMAIN tracked_accounts'
                                => pending_withdraws[tx].pending[a]
                                       > tracked_accounts'[a]
                                             .min_guaranteed_balance]_vars

\* C21: when the head of the queue of a walked account can be neither
\* committed nor rejected (its amount exceeds min_guaranteed_balance as the
\* drain starts and its version is later than the new last_settled_version),
\* the drain stops: the queue is left as it was, head first and in arrival
\* order, and no withdraw of the queue is given a verdict.
DrainStopsAtUndecidedHead ==
    [][SettleStep
          => \A a \in DOMAIN tracked_accounts :
                 (/\ Visited(a)
                  /\ Queue(a) # <<>>
                  /\ pending_withdraws[Head(Queue(a))].pending[a]
                         > MinAfterRelease(a)
                  /\ pending_withdraws[Head(Queue(a))].accumulator_version
                         > last_settled_version')
                     => /\ a \in DOMAIN tracked_accounts'
                        /\ tracked_accounts'[a].pending_reservations = Queue(a)
                        /\ \A w \in Queued(a) : results'[w] = results[w]]_vars

\* C22: try_reserve, as called for the one withdraw of a batch on each
\* account it names: if the account's queue is non-empty or its
\* min_guaranteed_balance is smaller than the amount, the withdraw is appended
\* at the back of the queue, false is returned and min_guaranteed_balance and
\* reserved_balance are unchanged; otherwise the amount is committed under
\* the withdraw's version and true is returned.
TryReserveContract ==
    [][(ScheduleStep /\ Cardinality(NewTxs) = 1
            /\ call'.version >= last_settled_version)
          => \A tx \in NewTxs :
                 \A a \in DOMAIN pending_withdraws'[tx].reservations :
                     LET pre == IF a \in DOMAIN tracked_accounts
                                THEN tracked_accounts[a]
                                ELSE NewAccountState(balances, a)
                         amount == pending_withdraws'[tx].reservations[a]
                         v == call'.version
                     IN  /\ a \in DOMAIN tracked_accounts'
                         /\ IF pre.pending_reservations # <<>>
                                   \/ pre.min_guaranteed_balance < amount
                            THEN /\ ~TryReserveReturns(pre, amount)
                                 /\ tracked_accounts'[a].pending_reservations
                                        = Append(pre.pending_reservations, tx)
                                 /\ tracked_accounts'[a].min_guaranteed_balance
                                        = pre.min_guaranteed_balance
                                 /\ tracked_accounts'[a].reserved_balance
                                        = pre.reserved_balance
                                 /\ a \in DOMAIN pending_withdraws'[tx].pending
                            ELSE /\ TryReserveReturns(pre, amount)
                                 /\ tracked_accounts'[a].pending_reservations
                                        = pre.pending_reservations
                                 /\ tracked_accounts'[a].min_guaranteed_balance
                                        = pre.min_guaranteed_balance - amount
                                 /\ tracked_accounts'[a].reserved_balance
                                        = MapPut(pre.reserved_balance, v,
                                                 MapGet(pre.reserved_balance,
                                                        v, 0) + amount)
                                 /\ a \notin DOMAIN pending_withdraws'[tx]
                                                        .pending]_vars

\* the last call submitted a withdraw on two accounts: it was committed on
\* the first and appended behind a waiting withdraw on the second
TryReserveContractWitness ==
    /\ call.op = "schedule_withdraws"
    /\ \E tx \in DOMAIN pending_withdraws :
           /\ tx = next_tx - 1
           /\ DOMAIN pending_withdraws[tx].reservations = {1, 2}
           /\ DOMAIN pending_withdraws[tx].pending = {2}
           /\ 2 \in DOMAIN tracked_accounts
           /\ Len(Queue(2)) = 2
           /\ Queue(2)[2] = tx

\* the sum of the amounts an account holds reserved, over all versions
RECURSIVE SumReserved(_)
SumReserved(reserved_balance) ==
    IF DOMAIN reserved_balance = {}
    THEN 0
    ELSE LET v == Min(DOMAIN reserved_balance)
         IN  reserved_balance[v] + SumReserved(MapRemove(reserved_balance, v))

\* C23: for every tracked account, after every operation,
\* min_guaranteed_balance plus the sum of reserved_balance over all versions
\* equals the balance of the account at last_settled_version (the balance
\* read when it became tracked plus every delta settled since).
BudgetConservation ==
    \A a \in DOMAIN tracked_accounts :
        tracked_accounts[a].min_guaranteed_balance
            + SumReserved(tracked_accounts[a].reserved_balance)
                = GetAccountBalance(balances, a)

\* C24: with a settlement feed that keeps every balance non-negative (the
\* feed of Settle), the net amount released for an account, the amount
\* reserved under the closing version plus the signed delta, is never
\* negative: the conversion to u128 in the release never fails.
ReleaseNeverNegative == panicked # "try_from_net"

\* the amount the account holds reserved under the version
ReservedUnder(accounts, a, v) ==
    IF a \in DOMAIN accounts THEN MapGet(accounts[a].reserved_balance, v, 0)
    ELSE 0

\* C25 (state part): no account holds a reservation keyed by a version that
\* last_settled_version has passed.
NoReservationOfClosedVersion ==
    \A a \in DOMAIN tracked_accounts :
        \A v \in DOMAIN tracked_accounts[a].reserved_balance :
            v >= last_settled_version

\* C25 (step part): no step takes anything back from a reservation keyed by a
\* version that is still open after the step.
NoEarlyRelease ==
    \A a \in DOMAIN tracked_accounts :
        \A v \in DOMAIN tracked_accounts[a].reserved_balance :
            v >= last_settled_version'
                => ReservedUnder(tracked_accounts', a, v)
                       >= ReservedUnder(tracked_accounts, a, v)

\* C25: reservations committed under version V are released exactly during
\* the settle_balances call that advances last_settled_version from V to
\* V + 1: no step returns them earlier, and after that call no account holds
\* a reservation keyed by V.
ReleasedWhenVersionCloses ==
    [][NoEarlyRelease /\ NoReservationOfClosedVersion']_vars

\* C26: whenever process_settlement walks an account that has no
\* AccountState, the account is a key of the delta map of the call: the
\* assertion made on untracked accounts never fails.
UntrackedOnlyFromDeltas == panicked # "assert_untracked_in_settlement"

\* C27: the pending-settlements index is complete: in every state in which
\* no call has failed, every tracked account is a member of
\* pending_settlements[V] for every version V under which it holds a
\* reservation or has a queued withdraw.
IndexComplete ==
    panicked = NoPanic
        => \A a \in DOMAIN tracked_accounts :
               /\ \A v \in DOMAIN tracked_accounts[a].reserved_balance :
                      a \in MapGet(pending_settlements, v, {})
               /\ \A w \in Queued(a) :
                      a \in MapGet(pending_settlements,
                                   pending_withdraws[w].accumulator_version, {})

\* the accounts named by the withdraws the step submits
NamedByBatch ==
    UNION {DOMAIN pending_withdraws'[tx].reservations :
               tx \in NewTxs \cap DOMAIN pending_withdraws'}

HeadUndecidable ==
    panicked = NoPanic
        => \A a \in DOMAIN tracked_accounts :
               Queue(a) # <<>>
                   => \/ pending_withdraws[Head(Queue(a))].pending[a]
                             > tracked_accounts[a].min_guaranteed_balance
                      \/ pending_withdraws[Head(Queue(a))].accumulator_version
                             > last_settled_version

\* C30: once a withdraw has received its verdict it is no longer referenced
\* by the scheduler: in every state in which no call has failed, a withdraw
\* that has been delivered SufficientBalance or InsufficientBalance appears
\* in no account's pending queue.
DecidedNotQueued ==
    panicked = NoPanic
        => \A tx \in DOMAIN pending_withdraws :
               (Verdicts(tx) \cap {"SufficientBalance", "InsufficientBalance"}
                    # {})
                   => \A a \in DOMAIN tracked_accounts : tx \notin Queued(a)

\* the accounts that get an AccountState in the step
Created == DOMAIN tracked_accounts' \ DOMAIN tracked_accounts

\* C31: an AccountState is created only by schedule_withdraws, for the
\* accounts its batch names that are untracked at that moment, and starts from
\* the balance read at the last_settled_version of that moment (what it has
\* left plus what the batch reserved on it is that balance); the balance
\* reader is asked for exactly these accounts at that version, and a
\* settle_balances call asks nothing and creates no AccountState.
AccountCreatedOnFirstReference ==
    [][/\ SettleStep => (reads' = {} /\ Created = {})
       /\ ScheduleStep
           => /\ Created = IF call'.version >= last_settled_version
                           THEN NamedByBatch \ DOMAIN tracked_accounts
                           ELSE {}
              /\ reads' = {<<a, last_settled_version>> : a \in Created}
              /\ \A a \in Created :
                     tracked_accounts'[a].min_guaranteed_balance
                         + SumReserved(tracked_accounts'[a].reserved_balance)
                             = GetAccountBalance(balances, a)]_vars

\* an account is tracked again, after settlements, with the balance read at
\* the version settled last, and the batch reserved on it
AccountCreatedWitness ==
    /\ call.op = "schedule_withdraws"
    /\ last_settled_version > StartingVersion
    /\ \E a \in DOMAIN tracked_accounts :
           /\ <<a, last_settled_version>> \in reads
           /\ \E tx \in DOMAIN pending_withdraws :
                  tx < next_tx - 1 /\ a \in DOMAIN pending_withdraws[tx].reservations
           /\ tracked_accounts[a].reserved_balance # EmptyMap

\* the digest of the withdraw that was submitted with the receiver's channel
PairedDigest(receiver) == receiver

\* C32: every result is sent on the sender that was paired with its withdraw
\* at submission and carries that withdraw's tx_digest: each PendingWithdraw
\* holds the digest paired with its channel, every result a receiver has got
\* carries the digest of the withdraw submitted with it, and a receiver that
\* got SufficientBalance or InsufficientBalance is the one of an accepted
\* withdraw whose sender has been taken.
VerdictOnPairedSender ==
    /\ \A tx \in DOMAIN pending_withdraws :
           pending_withdraws[tx].tx_digest
               = PairedDigest(pending_withdraws[tx].channel)
    /\ DOMAIN digests \subseteq DOMAIN results
    /\ \A r \in DOMAIN digests :
           /\ Len(digests[r]) = Len(results[r])
           /\ \A i \in 1..Len(digests[r]) :
                  /\ digests[r][i] = PairedDigest(r)
                  /\ results[r][i] # "AlreadyExecuted"
                         => \E tx \in DOMAIN pending_withdraws :
                                /\ pending_withdraws[tx].channel = r
                                /\ ~pending_withdraws[tx].sender

\* two withdraws of one version have got different verdicts, each on its own
\* receiver
VerdictOnPairedSenderWitness ==
    /\ panicked = NoPanic
    /\ \E tx1, tx2 \in DOMAIN pending_withdraws :
           /\ tx1 < tx2
           /\ pending_withdraws[tx1].accumulator_version
                  = pending_withdraws[tx2].accumulator_version
           /\ results[pending_withdraws[tx1].channel] # <<>>
           /\ results[pending_withdraws[tx2].channel] # <<>>
           /\ results[pending_withdraws[tx1].channel]
                  # results[pending_withdraws[tx2].channel]
           /\ digests[pending_withdraws[tx2].channel]
                  = <<pending_withdraws[tx2].tx_digest>>

\* C33: dropping a result receiver has no effect on the scheduler: after the
\* same calls, tracked accounts (budgets, reservations, queues), the
\* pending-settlements index, the version, the pending withdraws with their
\* senders and the failure of a call are what they are when no receiver has
\* been dropped, and every receiver that is alive has got the results it
\* gets then.
ReceiverDropHasNoEffect ==
    LET s == Replay(NewScheduler(StartingVersion), det.init, 1, det.calls, 1)
    IN  /\ tracked_accounts = s.tracked_accounts
        /\ pending_settlements = s.pending_settlements
        /\ last_settled_version = s.last_settled_version
        /\ pending_withdraws = s.pending_withdraws
        /\ panicked = s.panicked
        /\ \A r \in TxDigests \ det.dropped :
               /\ MapGet(results, r, <<>>) = MapGet(s.results, r, <<>>)
               /\ MapGet(digests, r, <<>>) = MapGet(s.digests, r, <<>>)

\* a withdraw whose receiver was dropped has been rejected, the result being
\* discarded, and a withdraw submitted after it has got its verdict
ReceiverDropWitness ==
    /\ panicked = NoPanic
    /\ \E tx1, tx2 \in DOMAIN pending_withdraws :
           /\ tx1 < tx2
           /\ pending_withdraws[tx1].channel \in det.dropped
           /\ ~pending_withdraws[tx1].sender
           /\ pending_withdraws[tx1].pending # EmptyMap
           /\ results[pending_withdraws[tx1].channel] = <<>>
           /\ pending_withdraws[tx2].channel \notin det.dropped
           /\ results[pending_withdraws[tx2].channel] # <<>>

\* C34: a withdraw accepted by schedule_withdraws with an empty reservation
\* map is delivered exactly one verdict by that call: its receiver has got
\* one result and its sender has been taken to send it.
EmptyWithdrawGetsVerdict ==
    [][ScheduleStep
          => \A tx \in NewTxs \cap DOMAIN pending_withdraws' :
                 pending_withdraws'[tx].reservations = EmptyMap
                     => /\ Len(results'[pending_withdraws'[tx].channel]) = 1
                        /\ ~pending_withdraws'[tx].sender]_vars

\* C35: the amounts a withdraw has committed on some of its accounts are not
\* returned when it is rejected with InsufficientBalance on another: at the
\* rejection and at every later step that leaves its version open, each such
\* account stays tracked with at least the amount in reserved_balance under
\* the withdraw's version, no step takes anything back from that entry, and
\* (the call not failing) the account's min_guaranteed_balance is its balance
\* less everything reserved, the amount included.
RejectedKeepsCommitted ==
    [][\A tx \in DOMAIN pending_withdraws :
           \A a \in DOMAIN pending_withdraws[tx].reservations :
               LET w == pending_withdraws[tx]
                   v == w.accumulator_version
               IN  (/\ "InsufficientBalance" \in Verdicts(tx)'
                    /\ v >= last_settled_version'
                    /\ CommittedOn(tx, a))
                       => /\ a \in DOMAIN tracked_accounts'
                          /\ ReservedUnder(tracked_accounts', a, v)
                                 >= ReservedUnder(tracked_accounts, a, v)
                          /\ ReservedUnder(tracked_accounts', a, v)
                                 >= w.reservations[a]
                          /\ panicked' = NoPanic
                                 => tracked_accounts'[a].min_guaranteed_balance
                                        + SumReserved(tracked_accounts'[a]
                                                          .reserved_balance)
                                            = GetAccountBalance(balances', a)]_vars

\* a withdraw on two accounts has been rejected on one and still holds its
\* amount reserved on the other, whose budget is used up by it
RejectedKeepsCommittedWitness ==
    /\ panicked = NoPanic
    /\ call.op = "settle_balances"
    /\ \E tx \in DOMAIN pending_withdraws, a \in DOMAIN tracked_accounts :
           /\ results[tx] = <<"InsufficientBalance">>
           /\ CommittedOn(tx, a)
           /\ pending_withdraws[tx].accumulator_version = last_settled_version
           /\ ReservedUnder(tracked_accounts, a, last_settled_version)
                  = pending_withdraws[tx].reservations[a]
           /\ tracked_accounts[a].min_guaranteed_balance = 0

\* the step pops the withdraw from the queue of the walked account without
\* committing it there: in a call that returns, it rejects it on the account
RejectedAt(tx, b) ==
    /\ b \in DOMAIN tracked_accounts
    /\ tx \in Queued(b)
    /\ Visited(b)
    /\ b \in DOMAIN pending_withdraws'[tx].pending
    /\ b \in DOMAIN tracked_accounts' => tx \notin Queued(b)'
\* the step commits the withdraw's amount on the account
CommittedInStep(tx, a) == ~CommittedOn(tx, a) /\ CommittedOn(tx, a)'

\* C36 (first part): no step that returns commits an amount for a withdraw
\* that has been delivered InsufficientBalance, in an earlier call or earlier
\* in the same call (the accounts of a settlement are walked in id order).
NoCommitAfterRejection ==
    \A tx \in DOMAIN pending_withdraws :
        \A a \in DOMAIN pending_withdraws[tx].reservations :
            CommittedInStep(tx, a)
                => /\ "InsufficientBalance" \notin Verdicts(tx)
                   /\ \A b \in Accounts : b < a => ~RejectedAt(tx, b)

\* C36: a withdraw that has been delivered InsufficientBalance never
\* afterwards has an amount committed on any account, and a commit that
\* empties a withdraw's pending map finds the sender present: taking it to
\* deliver SufficientBalance never fails.
RejectedNeverCommitted ==
    [][/\ panicked' = NoPanic => NoCommitAfterRejection
       /\ panicked' # "unwrap_sender"]_vars

\* the batch the step submits, read off the withdraws it creates
SubmittedBatch ==
    [i \in 1..(next_tx' - next_tx) |->
        pending_withdraws'[next_tx + i - 1].reservations]
\* the state schedule_withdraws has built when its loop is over, before the
\* closing process_settlement
BeforeClosingSettlement ==
    ScheduleLoop(SchedulerState, balances, call'.version, SubmittedBatch,
                 next_tx, 1)

PortRetriesContract ==
    /\ det.attempts <= det.max_retries
    /\ det.attempt <= det.max_retries
    /\ det.attempts <= det.attempt + 1
    /\ (det.host = "" \/ det.max_retries = 0)
           => /\ det.attempts = 0
              /\ det.pc = "done" => det.returned = None
    /\ (det.pc = "done" /\ det.host # "" /\ det.max_retries > 0)
           => \/ /\ det.returned.tag = "Some"
                 /\ det.attempts = det.failures + 1
              \/ /\ det.returned = None
                 /\ det.failures = det.max_retries
    /\ det.pc # "done" => det.returned = NotReturned
    /\ det.pc # "panicked"
====
